---- MODULE Spec2Model ----
(***************************************************************************)
(* A model of catrees: the grid clustering of observations                 *)
(* (inat.cluster_observations), the per-species aggregation over fetched   *)
(* pages (inat.get_nearby_observations), the seen-filter of the `nearby`   *)
(* command (cli.nearby.is_seen) and the distance ranking of the `nearest`  *)
(* command (cli.nearest), the two other page loops                         *)
(* (inat.get_species_observations_in_ca, inat.get_user_life_list) and the  *)
(* targets tables with the target selection of `nearby` (db.add_target,    *)
(* db.remove_target, cli.nearby).                                          *)
(*                                                                         *)
(* Numbers.  Coordinates are whole degrees and grid sizes are whole        *)
(* degrees, so that every float operation of the clustering loop (the      *)
(* division by grid_size, round(), the product and the running sums) is    *)
(* exact in IEEE arithmetic and the integers below compute the same        *)
(* values.  The one inexact operation, lat_sum / n, is kept as the exact   *)
(* fraction [num, den] (the float is the double nearest to it).            *)
(*                                                                         *)
(* Strings.  observed_on is a sequence of digit characters (<<>> is the    *)
(* empty string), compared as Python compares str: lexicographically.      *)
(***************************************************************************)
EXTENDS Integers, Sequences, FiniteSets, TLC

VARIABLES
    pc,            \* position of the modelled call: "call" before, "done" after
    raised,        \* the exception the call left with, "none" when it returned
    fn,            \* the function or command the call is of
    observations,  \* cluster_observations / nearest: the list of observation dicts
    grid_size,     \* cluster_observations: the grid_size argument
    clusters,      \* cluster_observations: the defaultdict, in insertion order
    result,        \* cluster_observations: the returned list
    max_pages,     \* get_nearby_observations: the max_pages argument
    page,          \* get_nearby_observations: the loop variable, the page to request
    fetched,       \* get_nearby_observations: the records of the responses so far, in order
    species_counts,\* get_nearby_observations: the defaultdict, in insertion order
    summaries,     \* get_nearby_observations: the returned list
    sci_name,      \* nearby.is_seen: the argument
    seen,          \* nearby: the set of lowercase names is_seen closes over
    is_seen_result,\* nearby.is_seen: the returned bool
    from_lat,      \* nearest: the --lat option
    from_lng,      \* nearest: the --lng option
    sorted_obs,    \* nearest: the list handed to display.show_nearest
    requests,      \* page loops: the `page` parameter of each request made, in order
    returned,      \* page loops: len(results) of each response, in order
    species_names, \* get_user_life_list: the set of lowercase names
    targets,       \* db: the rows of the targets table
    target_locations, \* db: the rows of the target_locations table, in insertion order
    next_id,       \* db: the next value of the SERIAL sequence of targets.id
    db_result,     \* db: what the last add_target / remove_target returned
    target_id,     \* targets remove: the id argument of the last removal
    inat_species,  \* nearby: the displayed results the selection indexes
    indices,       \* nearby: the 0-based indices parsed from the selection
    echoed         \* nearby: the "Added" / "Already targeted" lines echoed
                   \* (the last four are locals: empty outside their command)

clusterVars == <<observations, grid_size, clusters, result>>
nearbyVars == <<max_pages, page, fetched, species_counts, summaries>>
seenVars == <<sci_name, seen, is_seen_result>>
nearestVars == <<from_lat, from_lng, sorted_obs>>
pagingVars == <<requests, returned, species_names>>
targetVars ==
    <<targets, target_locations, next_id, db_result, target_id,
      inat_species, indices, echoed>>
vars ==
    <<pc, raised, fn, clusterVars, nearbyVars, seenVars, nearestVars,
      pagingVars, targetVars>>

(***************************************************************************)
(* Bounds and input sets                                                   *)
(***************************************************************************)
MaxObs == 3

Coords == {<<33, -119>>, <<35, -118>>, <<37, -122>>}
Dates  == {<<>>, <<2, 3>>, <<2, 4>>}
Places == {"Ojai", "Napa"}
GridSizes == {-2, 0, 2, 8}

Observation ==
    {[lat |-> c[1], lng |-> c[2], observed_on |-> d, place_guess |-> p] :
        c \in Coords, d \in Dates, p \in Places}

SeqsUpTo(S, n) == UNION {[1..k -> S] : k \in 0..n}

\* The page size of the model, standing for per_page=200 of the requests.
PerPage == 2

\* The values of max_pages the modelled calls are made with.
MaxPagesArgs == {1, 2}

\* Scientific and common names are sequences of characters.
NameQ == <<"Q", "a">>
Nameq == <<"q", "a">>
NameP == <<"P">>
NameY == <<"Y">>

\* A component of a location, as float() sees it: convertible (to val) or not.
Num(v) == [ok |-> TRUE, val |-> v]
NotNum == [ok |-> FALSE, val |-> 0]
LocA == <<Num(34), Num(-118)>>
LocB == <<Num(35), Num(-119)>>

\* A record of a response.  has_taxon is FALSE for a missing (or empty) taxon;
\* an empty name stands for an absent one too (taxon.get("name", "")); an empty
\* location stands for a missing one.
Rec(t, n, i, c, l) ==
    [has_taxon |-> t, name |-> n, id |-> i, preferred_common_name |-> c,
     location |-> l, observed_on |-> <<2, 3>>, place_guess |-> "Ojai"]

Records ==
    { Rec(FALSE, <<>>, 0, <<>>, LocA),
      Rec(TRUE, <<>>, 5, NameY, LocA),
      Rec(TRUE, NameQ, 7, <<>>, LocA),
      Rec(TRUE, NameQ, 7, NameY, <<>>),
      Rec(TRUE, Nameq, 8, NameY, <<Num(34), NotNum>>),
      Rec(TRUE, Nameq, 8, <<>>, LocB),
      Rec(TRUE, NameP, 9, <<>>, LocB),
      Rec(TRUE, NameP, 9, <<>>, <<Num(34), Num(-118), Num(0)>>) }

\* The longest scientific name passed to is_seen, in characters.
MaxNameLen == 5

\* The characters of those names: a lowercase and an uppercase letter, a space, a tab.
NameChars == {"a", "B", " ", "\t"}

\* The names the seen set is drawn from: lowercase, as both of its sources
\* produce them (inat.py:119, db.py:98).
SeenNames ==
    { <<"a">>, <<"a", " ", "b">>, <<"b", " ", "a">>, <<"a", " ", "b", " ", "a">> }

\* The reference points of the `nearest` command, in whole degrees.
FromPoints == {<<33, -119>>, <<36, -120>>}

(***************************************************************************)
(* Python primitives                                                       *)
(***************************************************************************)
Abs(x) == IF x < 0 THEN -x ELSE x

\* round(p / q) for q # 0: the nearest integer, a tie going to the even one.
RoundHalfEven(p, q) ==
    LET n == IF q < 0 THEN -p ELSE p
        d == Abs(q)
        f == IF n >= 0 THEN n \div d ELSE -(((-n) + d - 1) \div d)
        r == n - f * d
    IN  IF 2 * r < d THEN f
        ELSE IF 2 * r > d THEN f + 1
        ELSE IF f % 2 = 0 THEN f ELSE f + 1

\* a > b on str: the first differing character decides, a proper prefix is less.
StrGT(a, b) ==
    \E i \in 1..Len(a) :
        /\ \A j \in 1..(i - 1) : j <= Len(b) /\ a[j] = b[j]
        /\ (i > Len(b) \/ a[i] > b[i])

\* The position x takes in a list sorted by non-increasing count, behind its equals.
InsertByCountDesc(sorted, x) ==
    LET k == Cardinality({i \in 1..Len(sorted) : sorted[i].count >= x.count})
    IN  SubSeq(sorted, 1, k) \o <<x>> \o SubSeq(sorted, k + 1, Len(sorted))

RECURSIVE StableSortPrefix(_, _)
StableSortPrefix(seq, n) ==
    IF n = 0 THEN <<>>
    ELSE InsertByCountDesc(StableSortPrefix(seq, n - 1), seq[n])

Reverse(seq) == [i \in 1..Len(seq) |-> seq[Len(seq) + 1 - i]]

\* The position x takes in a list sorted by non-decreasing count, behind its equals.
InsertByCountAsc(sorted, x) ==
    LET k == Cardinality({i \in 1..Len(sorted) : sorted[i].count <= x.count})
    IN  SubSeq(sorted, 1, k) \o <<x>> \o SubSeq(sorted, k + 1, Len(sorted))

RECURSIVE StableSortAscPrefix(_, _)
StableSortAscPrefix(seq, n) ==
    IF n = 0 THEN <<>>
    ELSE InsertByCountAsc(StableSortAscPrefix(seq, n - 1), seq[n])

\* Mutant of SortedByCountDesc: sort ascending, then reverse (ties come out reversed).
SortedAscThenReversed(seq) == Reverse(StableSortAscPrefix(seq, Len(seq)))

\* sorted(seq, key=lambda x: x["count"], reverse=True): stable, descending.
SortedByCountDesc(seq) == StableSortPrefix(seq, Len(seq))

(***************************************************************************)
(* inat.cluster_observations                                               *)
(***************************************************************************)
\* Mutant of GridKey: the cell is keyed by the snapped latitude alone.
GridKeyLatOnly(obs, g) == <<RoundHalfEven(obs.lat, g) * g, 0>>

\* grid_key: each coordinate snapped to the nearest multiple of grid_size.
GridKey(obs, g) ==
    <<RoundHalfEven(obs.lat, g) * g, RoundHalfEven(obs.lng, g) * g>>

\* The defaultdict's factory, with the key the entry is stored under.
DefaultCluster(key) ==
    [key |-> key, count |-> 0, lat_sum |-> 0, lng_sum |-> 0,
     last_seen |-> <<>>, place_guess |-> ""]

\* Mutant of Counted: the count is set, not incremented.
CountedOnce(cluster) == 1

\* cluster["count"] += 1
Counted(cluster) == cluster.count + 1

\* Mutant of IsMoreRecent: >= in place of >.
IsMoreRecentOrSame(obs, cluster) ==
    obs.observed_on = cluster.last_seen \/ StrGT(obs.observed_on, cluster.last_seen)

\* Mutant of IsMoreRecent: the first observation of a cell is always taken.
IsMoreRecentOrFirst(obs, cluster) ==
    cluster.count = 0 \/ StrGT(obs.observed_on, cluster.last_seen)

\* obs["observed_on"] > cluster["last_seen"]
IsMoreRecent(obs, cluster) == StrGT(obs.observed_on, cluster.last_seen)

\* One pass of the loop over observations: get-or-insert the cell, then update it.
Accumulate(cl, obs, g) ==
    LET key == GridKey(obs, g)
        cs  == IF \E i \in 1..Len(cl) : cl[i].key = key
               THEN cl ELSE Append(cl, DefaultCluster(key))
        i   == CHOOSE i \in 1..Len(cs) : cs[i].key = key
        c   == cs[i]
        newer == IsMoreRecent(obs, c)
    IN  [cs EXCEPT ![i] =
            [key |-> key,
             count |-> Counted(c),
             lat_sum |-> c.lat_sum + obs.lat,
             lng_sum |-> c.lng_sum + obs.lng,
             last_seen |-> IF newer THEN obs.observed_on ELSE c.last_seen,
             place_guess |-> IF newer THEN obs.place_guess ELSE c.place_guess]]

RECURSIVE AccumulateAll(_, _, _)
AccumulateAll(obsSeq, n, g) ==
    IF n = 0 THEN <<>>
    ELSE Accumulate(AccumulateAll(obsSeq, n - 1, g), obsSeq[n], g)

\* Mutant of Summaries: an empty dict yields one summary, of an empty cell.
SummariesNeverEmpty(cl) ==
    LET dl == IF cl = <<>> THEN <<DefaultCluster(<<0, 0>>)>> ELSE cl
    IN  [i \in 1..Len(dl) |->
            [count |-> dl[i].count,
             lat |-> [num |-> dl[i].lat_sum, den |-> dl[i].count],
             lng |-> [num |-> dl[i].lng_sum, den |-> dl[i].count],
             last_seen |-> dl[i].last_seen,
             place_guess |-> dl[i].place_guess]]

\* The second loop: one summary per entry of the dict, in the dict's order.
Summaries(cl) ==
    [i \in 1..Len(cl) |->
        [count |-> cl[i].count,
         lat |-> [num |-> cl[i].lat_sum, den |-> cl[i].count],
         lng |-> [num |-> cl[i].lng_sum, den |-> cl[i].count],
         last_seen |-> cl[i].last_seen,
         place_guess |-> cl[i].place_guess]]

\* The whole call.  Dividing by a zero grid_size raises on the first observation.
ClusterObservations ==
    /\ pc = "call"
    /\ pc' = "done"
    /\ IF grid_size = 0 /\ observations # <<>>
       THEN /\ raised' = "ZeroDivisionError"
            /\ UNCHANGED <<clusters, result>>
       ELSE /\ raised' = "none"
            /\ clusters' = AccumulateAll(observations, Len(observations), grid_size)
            /\ result' = SortedByCountDesc(Summaries(clusters'))
    /\ UNCHANGED <<fn, observations, grid_size, nearbyVars, seenVars, nearestVars,
                   pagingVars, targetVars>>

\* The other components at rest.
IdleCluster ==
    observations = <<>> /\ grid_size = 0 /\ clusters = <<>> /\ result = <<>>

IdleNearby ==
    /\ max_pages = 0 /\ page = 0 /\ fetched = <<>>
    /\ species_counts = <<>> /\ summaries = <<>>

IdleSeen == sci_name = <<>> /\ seen = {} /\ is_seen_result = FALSE

IdleNearest == from_lat = 0 /\ from_lng = 0 /\ sorted_obs = <<>>

IdlePaging == requests = <<>> /\ returned = <<>> /\ species_names = {}

IdleTargets ==
    /\ targets = {} /\ target_locations = <<>> /\ next_id = 1
    /\ db_result = "none" /\ target_id = 0
    /\ inat_species = <<>> /\ indices = <<>> /\ echoed = <<>>

InitCluster ==
    /\ pc = "call"
    /\ raised = "none"
    /\ fn = "cluster_observations"
    /\ observations \in SeqsUpTo(Observation, MaxObs)
    /\ grid_size \in GridSizes
    /\ clusters = <<>>
    /\ result = <<>>
    /\ IdleNearby
    /\ IdleSeen
    /\ IdleNearest
    /\ IdlePaging
    /\ IdleTargets

NextCluster == ClusterObservations

SpecCluster == InitCluster /\ [][NextCluster]_vars

(***************************************************************************)
(* inat._parse_location and inat.get_nearby_observations                   *)
(***************************************************************************)
\* str.lower() on one character, for the characters of the model.
LowerChar(c) ==
    CASE c = "Q" -> "q"
      [] c = "P" -> "p"
      [] c = "Y" -> "y"
      [] c = "A" -> "a"
      [] c = "B" -> "b"
      [] OTHER -> c

\* str.lower()
Lower(s) == [i \in 1..Len(s) |-> LowerChar(s[i])]

\* Mutant of ParseLocation: the number of components is not checked.
ParseLocationFirstTwo(obs) ==
    IF obs.location = <<>> THEN <<>>
    ELSE IF Len(obs.location) < 2 THEN <<>>
    ELSE IF ~(obs.location[1].ok /\ obs.location[2].ok) THEN <<>>
    ELSE <<[lat |-> obs.location[1].val, lng |-> obs.location[2].val,
            observed_on |-> obs.observed_on, place_guess |-> obs.place_guess]>>

\* _parse_location: None (here <<>>) unless the location has exactly two
\* components and float() converts both.
ParseLocation(obs) ==
    IF obs.location = <<>> THEN <<>>
    ELSE IF Len(obs.location) # 2 THEN <<>>
    ELSE IF ~(obs.location[1].ok /\ obs.location[2].ok) THEN <<>>
    ELSE <<[lat |-> obs.location[1].val, lng |-> obs.location[2].val,
            observed_on |-> obs.observed_on, place_guess |-> obs.place_guess]>>

\* The defaultdict's factory, with the key the entry is stored under.
DefaultSpecies(key) ==
    [key |-> key, count |-> 0, taxon_id |-> 0, scientific_name |-> <<>>,
     common_name |-> <<>>, locations |-> <<>>]

\* Mutant of CommonNameAfter: a common name once set is kept (first non-empty wins).
CommonNameKept(entry, obs) ==
    IF entry.common_name # <<>> THEN entry.common_name
    ELSE obs.preferred_common_name

\* entry["common_name"] = taxon.get("preferred_common_name", "")
CommonNameAfter(entry, obs) == obs.preferred_common_name

\* Mutant of Skipped: the check of the name is missing.
SkippedWithoutTaxonOnly(obs) == ~obs.has_taxon

\* The two `continue`s: no taxon, or no name in it.
Skipped(obs) == ~obs.has_taxon \/ Lower(obs.name) = <<>>

\* One pass of the loop over the results of a page.
Tally(sc, obs) ==
    IF Skipped(obs) THEN sc
    ELSE
    LET name == Lower(obs.name)
        cs == IF \E i \in 1..Len(sc) : sc[i].key = name
              THEN sc ELSE Append(sc, DefaultSpecies(name))
        i  == CHOOSE i \in 1..Len(cs) : cs[i].key = name
        e  == cs[i]
    IN  [cs EXCEPT ![i] =
            [key |-> name,
             count |-> e.count + 1,
             taxon_id |-> obs.id,
             scientific_name |-> obs.name,
             common_name |-> CommonNameAfter(e, obs),
             locations |-> e.locations \o ParseLocation(obs)]]

RECURSIVE TallyAll(_, _, _)
TallyAll(sc, results, n) ==
    IF n = 0 THEN sc
    ELSE Tally(TallyAll(sc, results, n - 1), results[n])

\* species_counts.values(): the entries in insertion order, without their keys.
Values(sc) ==
    [i \in 1..Len(sc) |->
        [count |-> sc[i].count, taxon_id |-> sc[i].taxon_id,
         scientific_name |-> sc[i].scientific_name,
         common_name |-> sc[i].common_name, locations |-> sc[i].locations]]

\* One iteration of the page loop: the request, its response, the loop over the
\* results and the two breaks; leaving the loop returns the sorted values.
FetchNearbyPage ==
    /\ pc = "paging"
    /\ \E results \in SeqsUpTo(Records, PerPage) :
        LET sc == TallyAll(species_counts, results, Len(results))
            last == results = <<>> \/ Len(results) < PerPage \/ page = max_pages
        IN  /\ requests' = Append(requests, page)
            /\ returned' = Append(returned, Len(results))
            /\ fetched' = fetched \o results
            /\ species_counts' = sc
            /\ IF last
               THEN /\ pc' = "done"
                    /\ page' = page
                    /\ summaries' = SortedByCountDesc(Values(sc))
               ELSE /\ pc' = "paging"
                    /\ page' = page + 1
                    /\ UNCHANGED summaries
    /\ UNCHANGED <<raised, fn, max_pages, clusterVars, seenVars, nearestVars,
                   species_names, targetVars>>

InitNearby ==
    /\ pc = "paging"
    /\ raised = "none"
    /\ fn = "get_nearby_observations"
    /\ max_pages \in MaxPagesArgs
    /\ page = 1
    /\ fetched = <<>>
    /\ species_counts = <<>>
    /\ summaries = <<>>
    /\ IdleCluster
    /\ IdleSeen
    /\ IdleNearest
    /\ IdlePaging
    /\ IdleTargets

NextNearby == FetchNearbyPage

SpecNearby == InitNearby /\ [][NextNearby]_vars

(***************************************************************************)
(* cli.nearby.is_seen                                                      *)
(***************************************************************************)
\* str.isspace() on one character, for the characters of the model.
IsSpace(c) == c = " " \/ c = "\t"

\* str.split() without a separator: the runs of non-whitespace characters.
RECURSIVE SplitScan(_, _, _, _)
SplitScan(s, i, cur, acc) ==
    IF i > Len(s) THEN (IF cur = <<>> THEN acc ELSE Append(acc, cur))
    ELSE IF IsSpace(s[i])
         THEN SplitScan(s, i + 1, <<>>, IF cur = <<>> THEN acc ELSE Append(acc, cur))
         ELSE SplitScan(s, i + 1, Append(cur, s[i]), acc)

Split(s) == SplitScan(s, 1, <<>>, <<>>)

\* " ".join(parts)
RECURSIVE JoinPrefix(_, _)
JoinPrefix(parts, n) ==
    IF n = 0 THEN <<>>
    ELSE IF n = 1 THEN parts[1]
    ELSE JoinPrefix(parts, n - 1) \o <<" ">> \o parts[n]

Join(parts) == JoinPrefix(parts, Len(parts))

\* Mutant of IsSubspecific: >= 2 in place of > 2.
IsSubspecificOrBinomial(parts) == Len(parts) >= 2

\* len(parts) > 2
IsSubspecific(parts) == Len(parts) > 2

\* is_seen(sci_name), with the seen set it closes over.
IsSeen(s, seenSet) ==
    LET name == Lower(s)
        parts == Split(name)
    IN  IF name \in seenSet THEN TRUE
        ELSE IF IsSubspecific(parts) THEN Join(SubSeq(parts, 1, 2)) \in seenSet
        ELSE FALSE

IsSeenCall ==
    /\ pc = "call"
    /\ pc' = "done"
    /\ is_seen_result' = IsSeen(sci_name, seen)
    /\ UNCHANGED <<raised, fn, sci_name, seen, clusterVars, nearbyVars, nearestVars,
                   pagingVars, targetVars>>

InitSeen ==
    /\ pc = "call"
    /\ raised = "none"
    /\ fn = "is_seen"
    /\ sci_name \in SeqsUpTo(NameChars, MaxNameLen)
    /\ seen \in SUBSET SeenNames
    /\ is_seen_result = FALSE
    /\ IdleCluster
    /\ IdleNearby
    /\ IdleNearest
    /\ IdlePaging
    /\ IdleTargets

NextSeen == IsSeenCall

SpecSeen == InitSeen /\ [][NextSeen]_vars

(***************************************************************************)
(* inat.haversine_km, which cli.nearest calls and src/catrees/inat.py does  *)
(* not define: modelled from the specification (4.1 GeoMath), the          *)
(* great-circle distance by the haversine formula on a sphere of radius    *)
(* 6371 km.  Angles are whole degrees and the arithmetic is fixed-point:   *)
(* HavMillionths[d + 1] is 10^6 * sin^2(d/2) for d = 0..180 degrees, and   *)
(* the central angle is read back from the table, interpolated linearly    *)
(* within a degree; 5730 is 100 * 180 / pi.                                *)
(***************************************************************************)
HavMillionths ==
    <<
       0, 76, 305, 685, 1218, 1903, 2739, 3727, 4866, 6156,
       7596, 9186, 10926, 12815, 14852, 17037, 19369, 21848, 24472, 27241,
       30154, 33210, 36408, 39748, 43227, 46846, 50603, 54497, 58526, 62690,
       66987, 71416, 75976, 80665, 85481, 90424, 95492, 100682, 105995, 111427,
       116978, 122645, 128428, 134323, 140330, 146447, 152671, 159001, 165435, 171970,
       178606, 185340, 192169, 199092, 206107, 213212, 220404, 227680, 235040, 242481,
       250000, 257595, 265264, 273005, 280814, 288691, 296632, 304634, 312697, 320816,
       328990, 337216, 345492, 353814, 362181, 370590, 379039, 387524, 396044, 404596,
       413176, 421783, 430413, 439065, 447736, 456422, 465122, 473832, 482550, 491274,
       500000, 508726, 517450, 526168, 534878, 543578, 552264, 560935, 569587, 578217,
       586824, 595404, 603956, 612476, 620961, 629410, 637819, 646186, 654508, 662784,
       671010, 679184, 687303, 695366, 703368, 711309, 719186, 726995, 734736, 742405,
       750000, 757519, 764960, 772320, 779596, 786788, 793893, 800908, 807831, 814660,
       821394, 828030, 834565, 840999, 847329, 853553, 859670, 865677, 871572, 877355,
       883022, 888573, 894005, 899318, 904508, 909576, 914519, 919335, 924024, 928584,
       933013, 937310, 941474, 945503, 949397, 953154, 956773, 960252, 963592, 966790,
       969846, 972759, 975528, 978152, 980631, 982963, 985148, 987185, 989074, 990814,
       992404, 993844, 995134, 996273, 997261, 998097, 998782, 999315, 999695, 999924,
       1000000
    >>

EarthRadiusKm == 6371

\* 10^6 * sin^2(d / 2) for an angle of d degrees.
Hav(d) ==
    LET m == Abs(d) % 360
        a == IF m > 180 THEN 360 - m ELSE m
    IN  HavMillionths[a + 1]

\* 10^4 * cos(d), as 1 - 2 * sin^2(d / 2), for a latitude d (cos(d) >= 0).
CosTenThousandths(d) == (1000000 - 2 * Hav(d)) \div 100

\* The intermediate products are scaled down to stay within 32 bits.
haversine_km(lat1, lng1, lat2, lng2) ==
    LET cc == (CosTenThousandths(lat1) * CosTenThousandths(lat2)) \div 100000
        a  == Hav(lat2 - lat1) + (cc * Hav(lng2 - lng1)) \div 1000
        d  == CHOOSE x \in 0..180 :
                  /\ HavMillionths[x + 1] >= a
                  /\ \A e \in 0..(x - 1) : HavMillionths[e + 1] < a
        \* the central angle in hundredths of a degree, interpolated within degree d
        c  == IF d = 0 THEN 0
              ELSE 100 * (d - 1)
                   + (100 * (a - HavMillionths[d])) \div (HavMillionths[d + 1] - HavMillionths[d])
    IN  (EarthRadiusKm * c) \div 5730

(***************************************************************************)
(* cli.nearest, from the fetched observations on                           *)
(***************************************************************************)
\* Mutant of InsertByDistance: the new pair goes before its equals.
InsertBeforeEquals(sorted, x) ==
    LET k == Cardinality({i \in 1..Len(sorted) : sorted[i].distance < x.distance})
    IN  SubSeq(sorted, 1, k) \o <<x>> \o SubSeq(sorted, k + 1, Len(sorted))

\* The position x takes in a list sorted by non-decreasing distance, behind its equals.
InsertByDistance(sorted, x) ==
    LET k == Cardinality({i \in 1..Len(sorted) : sorted[i].distance <= x.distance})
    IN  SubSeq(sorted, 1, k) \o <<x>> \o SubSeq(sorted, k + 1, Len(sorted))

\* sorted(pairs, key=lambda x: x[0]): stable, ascending.
RECURSIVE SortedByDistancePrefix(_, _)
SortedByDistancePrefix(pairs, n) ==
    IF n = 0 THEN <<>>
    ELSE InsertByDistance(SortedByDistancePrefix(pairs, n - 1), pairs[n])

\* The generator: (haversine_km(lat, lng, obs["lat"], obs["lng"]), obs) for each obs.
DistancePairs(obsSeq, lat, lng) ==
    [i \in 1..Len(obsSeq) |->
        [distance |-> haversine_km(lat, lng, obsSeq[i].lat, obsSeq[i].lng),
         obs |-> obsSeq[i]]]

\* The command from line 177 on: no observations, a message and return; else rank.
Nearest ==
    /\ pc = "call"
    /\ pc' = "done"
    /\ IF observations = <<>>
       THEN UNCHANGED sorted_obs
       ELSE sorted_obs' =
                SortedByDistancePrefix(DistancePairs(observations, from_lat, from_lng),
                                       Len(observations))
    /\ UNCHANGED <<raised, fn, observations, grid_size, clusters, result,
                   from_lat, from_lng, nearbyVars, seenVars, pagingVars, targetVars>>

InitNearest ==
    /\ pc = "call"
    /\ raised = "none"
    /\ fn = "nearest"
    /\ observations \in SeqsUpTo(Observation, MaxObs)
    /\ \E p \in FromPoints : from_lat = p[1] /\ from_lng = p[2]
    /\ sorted_obs = <<>>
    /\ grid_size = 0 /\ clusters = <<>> /\ result = <<>>
    /\ IdleNearby
    /\ IdleSeen
    /\ IdlePaging
    /\ IdleTargets

NextNearest == Nearest

SpecNearest == InitNearest /\ [][NextNearest]_vars

(***************************************************************************)
(* One call of any of the three components that take a collection:         *)
(* cluster_observations, get_nearby_observations or the `nearest` ranking. *)
(***************************************************************************)
InitCalls == InitCluster \/ InitNearby \/ InitNearest

NextCalls ==
    \/ fn = "cluster_observations" /\ ClusterObservations
    \/ fn = "get_nearby_observations" /\ FetchNearbyPage
    \/ fn = "nearest" /\ Nearest

SpecCalls == InitCalls /\ [][NextCalls]_vars

(***************************************************************************)
(* The two other page loops: inat.get_species_observations_in_ca and       *)
(* inat.get_user_life_list                                                 *)
(***************************************************************************)
\* The most requests a modelled run of get_user_life_list makes; its loop
\* has no bound of its own.
MaxLifePages == 2

\* The records get_user_life_list is answered with: it reads the taxon name only.
LifeListRecords ==
    {r \in Records : r.name # NameP /\ r.location \in {LocA, LocB}}

\* Mutant of LoopEnds: only an empty page ends the loop.
LoopEndsOnEmptyOnly(results) == results = <<>>

\* `if not results: break` before the records are looked at, and
\* `if len(results) < 200: break` after.
LoopEnds(results) == results = <<>> \/ Len(results) < PerPage

\* The loop over the results of a page of get_species_observations_in_ca.
RECURSIVE ParsedAll(_, _)
ParsedAll(results, n) ==
    IF n = 0 THEN <<>>
    ELSE ParsedAll(results, n - 1) \o ParseLocation(results[n])

\* The loop over the results of a page of get_user_life_list.
NamesOf(results) ==
    {Lower(results[i].name) :
        i \in {j \in 1..Len(results) : results[j].has_taxon /\ results[j].name # <<>>}}

\* One iteration of the loop of get_species_observations_in_ca; leaving the
\* loop returns the list.
FetchSpeciesPage ==
    /\ pc = "paging"
    /\ \E results \in SeqsUpTo(Records, PerPage) :
        LET last == LoopEnds(results) \/ page = max_pages
        IN  /\ requests' = Append(requests, page)
            /\ returned' = Append(returned, Len(results))
            /\ fetched' = fetched \o results
            /\ observations' = observations \o ParsedAll(results, Len(results))
            /\ pc' = IF last THEN "done" ELSE "paging"
            /\ page' = IF last THEN page ELSE page + 1
    /\ UNCHANGED <<raised, fn, max_pages, grid_size, clusters, result,
                   species_counts, summaries, seenVars, nearestVars,
                   species_names, targetVars>>

\* One iteration of the loop of get_user_life_list; leaving the loop returns
\* the set.
FetchLifeListPage ==
    /\ pc = "paging"
    /\ page <= MaxLifePages
    /\ \E results \in SeqsUpTo(LifeListRecords, PerPage) :
        /\ requests' = Append(requests, page)
        /\ returned' = Append(returned, Len(results))
        /\ fetched' = fetched \o results
        /\ species_names' = species_names \cup NamesOf(results)
        /\ pc' = IF LoopEnds(results) THEN "done" ELSE "paging"
        /\ page' = IF LoopEnds(results) THEN page ELSE page + 1
    /\ UNCHANGED <<raised, fn, max_pages, clusterVars, species_counts, summaries,
                   seenVars, nearestVars, targetVars>>

InitSpecies ==
    /\ pc = "paging"
    /\ raised = "none"
    /\ fn = "get_species_observations_in_ca"
    /\ max_pages \in MaxPagesArgs
    /\ page = 1
    /\ fetched = <<>>
    /\ species_counts = <<>>
    /\ summaries = <<>>
    /\ IdleCluster
    /\ IdleSeen
    /\ IdleNearest
    /\ IdlePaging
    /\ IdleTargets

InitLifeList ==
    /\ pc = "paging"
    /\ raised = "none"
    /\ fn = "get_user_life_list"
    /\ max_pages = 0
    /\ page = 1
    /\ fetched = <<>>
    /\ species_counts = <<>>
    /\ summaries = <<>>
    /\ IdleCluster
    /\ IdleSeen
    /\ IdleNearest
    /\ IdlePaging
    /\ IdleTargets

\* One call of any of the three functions that fetch pages.
InitPaging == InitNearby \/ InitSpecies \/ InitLifeList

NextPaging ==
    \/ fn = "get_nearby_observations" /\ FetchNearbyPage
    \/ fn = "get_species_observations_in_ca" /\ FetchSpeciesPage
    \/ fn = "get_user_life_list" /\ FetchLifeListPage

SpecPaging == InitPaging /\ [][NextPaging]_vars

(***************************************************************************)
(* The targets tables (db.ensure_targets_tables, db.add_target,            *)
(* db.remove_target) and the target selection of the `nearby` command      *)
(***************************************************************************)
\* The largest id the modelled runs draw from the SERIAL sequence of targets.
MaxTargetId == 3

\* The most results the modelled `nearby` command displays.
MaxShown == 2

\* A location entry of a summary, as _parse_location builds it.
Entry(lat, lng) ==
    [lat |-> lat, lng |-> lng, observed_on |-> <<2, 3>>, place_guess |-> "Ojai"]

Species(n, i, c, locs) ==
    [scientific_name |-> n, taxon_id |-> i, common_name |-> c, locations |-> locs]

\* The summaries the displayed results are drawn from.
SpeciesRows ==
    { Species(NameQ, 7, NameY, <<Entry(34, -118)>>),
      Species(Nameq, 8, <<>>, <<Entry(35, -119), Entry(35, -119)>>),
      Species(NameP, 9, <<>>, <<>>) }

\* The displayed results: summaries of distinct lowercased names, not empty.
ShownLists ==
    {l \in SeqsUpTo(SpeciesRows, MaxShown) :
        /\ l # <<>>
        /\ \A i, j \in 1..Len(l) :
              Lower(l[i].scientific_name) = Lower(l[j].scientific_name) => i = j}

\* A stripped part of the selection: a string of digits, with its value, or not.
Digits(v) == [isdigit |-> TRUE, val |-> v]
NoDigits == [isdigit |-> FALSE, val |-> 0]

\* The selections typed at the prompt: in and out of range, repeated, reversed,
\* and with parts that are not numbers.
Selections ==
    { <<Digits(1)>>, <<Digits(2)>>, <<Digits(1), Digits(1)>>,
      <<Digits(1), Digits(2)>>, <<Digits(2), Digits(1)>>,
      <<Digits(0), NoDigits>>, <<NoDigits, Digits(1)>>,
      <<Digits(MaxShown + 1)>> }

\* The loop over selection.split(","): the valid 1-based numbers, as 0-based
\* indices, in the order typed.
RECURSIVE SelectedIndices(_, _, _)
SelectedIndices(selection, k, len) ==
    IF k = 0 THEN <<>>
    ELSE LET part == selection[k]
             rest == SelectedIndices(selection, k - 1, len)
         IN  IF part.isdigit /\ 1 <= part.val /\ part.val <= len
             THEN Append(rest, part.val - 1)
             ELSE rest

\* The parameters of db.add_target.
AddTargetParams == {"scientific_name", "common_name", "inat_taxon_id", "locations"}

\* The keyword arguments of the call of db.add_target in the `nearby` command.
NearbyKeywords == {"search_lat", "search_lng"}

\* Python binds a call only if every keyword names a parameter; otherwise the
\* call raises TypeError before the body runs.
Binds(keywords, params) == keywords \subseteq params

\* The rows inserted into target_locations for a new target.
LocationRows(id, locs) ==
    [i \in 1..Len(locs) |->
        [target_id |-> id, lat |-> locs[i].lat, lng |-> locs[i].lng,
         observed_on |-> locs[i].observed_on, place_guess |-> locs[i].place_guess]]

\* The body of db.add_target on the tables t, and what it returns.
AddTarget(t, scientific_name, common_name, inat_taxon_id, locs) ==
    IF \E row \in t.targets : row.scientific_name = scientific_name
    THEN [t EXCEPT !.ret = "False"]
    ELSE [targets |-> t.targets \cup
                        {[id |-> t.next_id, scientific_name |-> scientific_name,
                          common_name |-> common_name,
                          inat_taxon_id |-> inat_taxon_id]},
          target_locations |-> t.target_locations \o LocationRows(t.next_id, locs),
          next_id |-> t.next_id + 1,
          ret |-> "True",
          echoed |-> t.echoed]

\* The body of the loop over the indices in the `nearby` command.
AddSelected(t, sp) ==
    LET u == AddTarget(t, sp.scientific_name, sp.common_name, sp.taxon_id,
                       sp.locations)
        shown == IF sp.common_name # <<>> THEN sp.common_name
                 ELSE sp.scientific_name
    IN  [u EXCEPT !.echoed =
            Append(t.echoed,
                   [msg |-> IF u.ret = "True" THEN "Added" ELSE "Already targeted",
                    name |-> shown])]

RECURSIVE AddAllSelected(_, _, _, _)
AddAllSelected(t, shown, idxs, k) ==
    IF k = 0 THEN t
    ELSE AddSelected(AddAllSelected(t, shown, idxs, k - 1), shown[idxs[k] + 1])

Tables ==
    [targets |-> targets, target_locations |-> target_locations,
     next_id |-> next_id, ret |-> "none", echoed |-> <<>>]

\* DELETE FROM targets WHERE id = ..., with ON DELETE CASCADE.
RowsLeft(id) == {row \in targets : row.id # id}

RECURSIVE LocationsLeft(_, _)
LocationsLeft(id, k) ==
    IF k = 0 THEN <<>>
    ELSE IF target_locations[k].target_id = id THEN LocationsLeft(id, k - 1)
    ELSE Append(LocationsLeft(id, k - 1), target_locations[k])

otherVars ==
    <<pc, clusterVars, nearbyVars, seenVars, nearestVars, pagingVars>>

\* The selection part of the `nearby` command, from the prompt to the end.
NearbySelect ==
    /\ \E shown \in ShownLists, selection \in Selections :
        LET idxs == SelectedIndices(selection, Len(selection), Len(shown))
            t == AddAllSelected(Tables, shown, idxs, Len(idxs))
        IN  /\ inat_species' = shown
            /\ indices' = idxs
            /\ IF idxs = <<>>
               THEN /\ raised' = "none"
                    /\ echoed' = <<>>
                    /\ db_result' = "none"
                    /\ UNCHANGED <<targets, target_locations, next_id>>
               ELSE IF ~Binds(NearbyKeywords, AddTargetParams)
               THEN /\ raised' = "TypeError"
                    /\ echoed' = <<>>
                    /\ db_result' = "none"
                    /\ UNCHANGED <<targets, target_locations, next_id>>
               ELSE /\ t.next_id <= MaxTargetId + 1
                    /\ raised' = "none"
                    /\ echoed' = t.echoed
                    /\ db_result' = t.ret
                    /\ targets' = t.targets
                    /\ target_locations' = t.target_locations
                    /\ next_id' = t.next_id
    /\ fn' = "nearby"
    /\ target_id' = 0
    /\ UNCHANGED otherVars

\* A call of db.add_target with the arguments it declares.
AddTargetCall ==
    /\ next_id <= MaxTargetId
    /\ \E sp \in SpeciesRows :
        LET t == AddTarget(Tables, sp.scientific_name, sp.common_name,
                           sp.taxon_id, sp.locations)
        IN  /\ targets' = t.targets
            /\ target_locations' = t.target_locations
            /\ next_id' = t.next_id
            /\ db_result' = t.ret
    /\ fn' = "add_target"
    /\ raised' = "none"
    /\ target_id' = 0 /\ inat_species' = <<>> /\ indices' = <<>> /\ echoed' = <<>>
    /\ UNCHANGED otherVars

\* The `targets remove` command: a call of db.remove_target.
RemoveTargetCall ==
    /\ \E id \in 1..(MaxTargetId + 1) :
        /\ target_id' = id
        /\ db_result' = IF \E row \in targets : row.id = id THEN "True" ELSE "False"
        /\ targets' = RowsLeft(id)
        /\ target_locations' = LocationsLeft(id, Len(target_locations))
    /\ fn' = "remove_target"
    /\ raised' = "none"
    /\ inat_species' = <<>> /\ indices' = <<>> /\ echoed' = <<>>
    /\ UNCHANGED <<next_id, otherVars>>

\* The tables as ensure_targets_tables creates them.
InitTargets ==
    /\ pc = "session"
    /\ raised = "none"
    /\ fn = "ensure_targets_tables"
    /\ IdleTargets
    /\ IdleCluster
    /\ IdleNearby
    /\ IdleSeen
    /\ IdleNearest
    /\ IdlePaging

NextTargets == NearbySelect \/ AddTargetCall \/ RemoveTargetCall

SpecTargets == InitTargets /\ [][NextTargets]_vars

(***************************************************************************)
(* Claims about cluster_observations.  The definitions below restate what  *)
(* the claims say from the input list alone; none of them uses the loop.   *)
(***************************************************************************)
Returned == pc = "done" /\ raised = "none"

Snap(x, g) == RoundHalfEven(x, g) * g

\* The grid multiple an input observation snaps to.
CellOf(obs) == <<Snap(obs.lat, grid_size), Snap(obs.lng, grid_size)>>

\* The grid multiple the centre of a returned cluster snaps to.
ClusterCell(c) ==
    <<RoundHalfEven(c.lat.num, c.lat.den * grid_size) * grid_size,
      RoundHalfEven(c.lng.num, c.lng.den * grid_size) * grid_size>>

\* The input positions that snap to a cell.
Members(cell) == {j \in 1..Len(observations) : CellOf(observations[j]) = cell}

Min(S) == CHOOSE x \in S : \A y \in S : x <= y

\* The sum of f over the subset S of its domain.
RECURSIVE SumOver(_, _)
SumOver(S, f) ==
    IF S = {} THEN 0
    ELSE LET x == CHOOSE x \in S : TRUE IN f[x] + SumOver(S \ {x}, f)

CountAt == [k \in 1..Len(result) |-> result[k].count]
LatAt == [j \in 1..Len(observations) |-> observations[j].lat]
LngAt == [j \in 1..Len(observations) |-> observations[j].lng]

\* C1: for every input list and every positive grid size, the counts of the
\* returned clusters add up to the number of input observations, and every
\* returned cluster has count >= 1.
C1_CountsSumToInput ==
    (Returned /\ grid_size > 0) =>
        /\ SumOver(1..Len(result), CountAt) = Len(observations)
        /\ \A k \in 1..Len(result) : result[k].count >= 1

C1_Witness ==
    /\ Returned /\ grid_size > 0
    /\ Len(observations) = 3
    /\ Len(result) = 2
    /\ result[1].count = 2

\* C2: the observations that snap to the same grid multiple are in exactly one
\* returned cluster, whose centre is the sum of their raw coordinates divided by
\* their number.
C2_OneClusterPerCellWithMean ==
    (Returned /\ grid_size > 0) =>
        \A i \in 1..Len(observations) :
            LET M  == Members(CellOf(observations[i]))
                ks == {k \in 1..Len(result) :
                          ClusterCell(result[k]) = CellOf(observations[i])}
            IN  /\ Cardinality(ks) = 1
                /\ \A k \in ks :
                    /\ result[k].count = Cardinality(M)
                    /\ result[k].lat.num = SumOver(M, LatAt)
                    /\ result[k].lat.den = Cardinality(M)
                    /\ result[k].lng.num = SumOver(M, LngAt)
                    /\ result[k].lng.den = Cardinality(M)

C2_Witness ==
    /\ Returned /\ grid_size > 0
    /\ Len(result) = 2
    /\ \E i, j \in 1..Len(observations) :
        /\ CellOf(observations[i]) = CellOf(observations[j])
        /\ observations[i].lat # observations[j].lat
        /\ observations[i].lng # observations[j].lng

\* C3: a cluster's last_seen is the greatest observed_on among the observations
\* of its cell, and its place_guess is that of the first observation, in input
\* order, that carries that greatest non-empty date.
C3_LastSeenAndPlace ==
    (Returned /\ grid_size > 0) =>
        \A k \in 1..Len(result) :
            LET M == Members(ClusterCell(result[k]))
                top == {j \in M : observations[j].observed_on = result[k].last_seen}
            IN  /\ top # {}
                /\ \A j \in M : ~StrGT(observations[j].observed_on, result[k].last_seen)
                /\ result[k].last_seen # <<>> =>
                       result[k].place_guess = observations[Min(top)].place_guess

C3_Witness ==
    /\ Returned /\ grid_size > 0
    /\ \E k \in 1..Len(result) :
        \E i, j \in Members(ClusterCell(result[k])) :
            /\ i < j
            /\ observations[i].observed_on = result[k].last_seen
            /\ observations[j].observed_on = result[k].last_seen
            /\ result[k].last_seen # <<>>
            /\ observations[i].place_guess # observations[j].place_guess
            /\ \E h \in Members(ClusterCell(result[k])) :
                   h < i /\ observations[h].observed_on # result[k].last_seen

\* C4 as stated: an observation with an empty observed_on never replaces the
\* recorded most-recent observation, and when the cell has seen no non-empty
\* date its first observation is the most recent one, so the cluster's
\* place_guess is that observation's.
C4_EmptyDateIsDefault ==
    (Returned /\ grid_size > 0) =>
        \A k \in 1..Len(result) :
            LET M == Members(ClusterCell(result[k]))
                dated == {j \in M : observations[j].observed_on # <<>>}
            IN  /\ dated # {} =>
                    \E j \in dated : result[k].place_guess = observations[j].place_guess
                /\ dated = {} =>
                    result[k].place_guess = observations[Min(M)].place_guess

\* C4 as amended: an observation with an empty observed_on neither replaces the
\* recorded most-recent observation nor becomes it: the place_guess of a cluster
\* is that of an observation with a non-empty date, and a cluster whose
\* observations all have an empty date keeps the empty last_seen and the empty
\* place_guess it was created with.
C4_EmptyDateNeverRecorded ==
    (Returned /\ grid_size > 0) =>
        \A k \in 1..Len(result) :
            LET M == Members(ClusterCell(result[k]))
                dated == {j \in M : observations[j].observed_on # <<>>}
            IN  /\ dated # {} =>
                    \E j \in dated :
                        /\ result[k].place_guess = observations[j].place_guess
                        /\ result[k].last_seen = observations[j].observed_on
                /\ dated = {} =>
                    result[k].place_guess = "" /\ result[k].last_seen = <<>>

C4_Witness ==
    /\ Returned /\ grid_size > 0
    /\ Len(result) = 2
    /\ \E k \in 1..Len(result) :
        /\ result[k].count = 2
        /\ \A j \in Members(ClusterCell(result[k])) : observations[j].observed_on = <<>>
    /\ \E k \in 1..Len(result) :
        /\ result[k].count = 1
        /\ result[k].last_seen # <<>>

\* C5: a call with grid_size <= 0 is rejected with an InvalidArgument error and
\* returns no clusters, whatever the input list, the empty one included.
C5_RejectsNonPositiveGrid ==
    (pc = "done" /\ grid_size <= 0) =>
        raised = "InvalidArgument" /\ result = <<>>

\* C6: the returned clusters are in order of non-increasing count, and clusters
\* of equal count are in the order in which their cells were first met in the
\* input.
C6_SortedByCountStable ==
    (Returned /\ grid_size > 0) =>
        \A i, j \in 1..Len(result) :
            i < j =>
                /\ result[i].count >= result[j].count
                /\ result[i].count = result[j].count =>
                       Min(Members(ClusterCell(result[i])))
                           < Min(Members(ClusterCell(result[j])))

C6_Witness ==
    /\ Returned /\ grid_size > 0
    /\ Len(result) = 3
    /\ Min(Members(ClusterCell(result[1]))) = 1
    /\ Min(Members(ClusterCell(result[3]))) = 3

(***************************************************************************)
(* Claims about get_nearby_observations, stated over the records fetched.  *)
(***************************************************************************)
\* The positions of the fetched records that carry a taxon with a name.
Named == {i \in 1..Len(fetched) : fetched[i].has_taxon /\ fetched[i].name # <<>>}

\* The positions of the fetched records whose lowercased name is that of `name`.
Carrying(name) == {i \in Named : Lower(fetched[i].name) = Lower(name)}

Max(S) == CHOOSE x \in S : \A y \in S : x >= y

SummaryCountAt == [k \in 1..Len(summaries) |-> summaries[k].count]

\* C7: the aggregation returns one summary per distinct lowercased name of the
\* fetched records, with count the number of records of that name; records with
\* no taxon or no name are skipped without error, so the counts add up to the
\* number of records with a name.
C7_OneSummaryPerName ==
    pc = "done" =>
        /\ raised = "none"
        /\ Len(summaries) = Cardinality({Lower(fetched[i].name) : i \in Named})
        /\ \A i \in Named :
            LET ks == {k \in 1..Len(summaries) :
                          Lower(summaries[k].scientific_name) = Lower(fetched[i].name)}
            IN  /\ Cardinality(ks) = 1
                /\ \A k \in ks :
                       summaries[k].count = Cardinality(Carrying(fetched[i].name))
        /\ SumOver(1..Len(summaries), SummaryCountAt) = Cardinality(Named)

C7_Witness ==
    /\ pc = "done"
    /\ Len(fetched) = 4
    /\ \E i \in 1..4 : ~fetched[i].has_taxon
    /\ \E i \in 1..4 : fetched[i].has_taxon /\ fetched[i].name = <<>>
    /\ \E i, j \in 1..4 : fetched[i].name = NameQ /\ fetched[j].name = Nameq
    /\ Len(summaries) = 1
    /\ summaries[1].count = 2

\* C8: the scientific name and the common name of a summary are those of the
\* last fetched record of its key, across pages: a first page with X and no
\* common name and a second page with X and common name Y give one summary for
\* X with common name Y and count 2.
C8_LastWriteWins ==
    pc = "done" =>
        \A k \in 1..Len(summaries) :
            LET last == Max(Carrying(summaries[k].scientific_name))
            IN  /\ summaries[k].scientific_name = fetched[last].name
                /\ summaries[k].common_name = fetched[last].preferred_common_name
                /\ summaries[k].count = Cardinality(Carrying(summaries[k].scientific_name))

C8_Witness ==
    /\ pc = "done"
    /\ page = 2
    /\ Len(fetched) = PerPage + 1
    /\ fetched[1].name = NameQ /\ fetched[1].preferred_common_name = <<>>
    /\ \A i \in 2..PerPage : ~fetched[i].has_taxon
    /\ fetched[PerPage + 1].name = NameQ
    /\ fetched[PerPage + 1].preferred_common_name = NameY
    /\ Len(summaries) = 1
    /\ summaries[1].common_name = NameY
    /\ summaries[1].count = 2

(***************************************************************************)
(* Claims about is_seen.  Tokens are described by where they start: at a   *)
(* non-whitespace character that is the first one or follows whitespace.   *)
(***************************************************************************)
Candidate == Lower(sci_name)

TokenStarts ==
    {i \in 1..Len(Candidate) :
        ~IsSpace(Candidate[i]) /\ (i = 1 \/ IsSpace(Candidate[i - 1]))}

\* The token that starts at i: up to the last character before the next whitespace.
TokenAt(i) ==
    LET stop == {j \in i..Len(Candidate) : IsSpace(Candidate[j])}
    IN  SubSeq(Candidate, i, IF stop = {} THEN Len(Candidate) ELSE Min(stop) - 1)

\* The first two tokens, joined by one space (for a candidate of two tokens or more).
Binomial ==
    LET first == Min(TokenStarts)
        second == Min(TokenStarts \ {first})
    IN  TokenAt(first) \o <<" ">> \o TokenAt(second)

\* C9: is_seen is true exactly when the lowercased candidate is in seen, or the
\* candidate has more than two whitespace-separated tokens and its first two,
\* joined by one space, are in seen (so a candidate of at most two tokens is
\* matched by itself alone); and seen is never modified.
C9_IsSeenExactly ==
    /\ [](pc = "done" =>
            (is_seen_result <=>
                \/ Candidate \in seen
                \/ Cardinality(TokenStarts) > 2 /\ Binomial \in seen))
    /\ [][seen' = seen]_vars

C9_Witness ==
    /\ pc = "done"
    /\ is_seen_result
    /\ sci_name = <<"a", " ", "B", " ", "a">>
    /\ seen = {<<"a", " ", "b">>}

(***************************************************************************)
(* Claims about the ranking of `nearest`                                   *)
(***************************************************************************)
DistanceOf(obs) == haversine_km(from_lat, from_lng, obs.lat, obs.lng)

Bijections(n) == {f \in [1..n -> 1..n] : \A i, j \in 1..n : f[i] = f[j] => i = j}

\* C10: the ranking holds every input observation exactly once, paired with its
\* distance from the reference point, in order of non-decreasing distance,
\* observations at equal distance in input order.
C10_RankedByDistanceStable ==
    (pc = "done" /\ observations # <<>>) =>
        /\ Len(sorted_obs) = Len(observations)
        /\ \E f \in Bijections(Len(observations)) :
            /\ \A k \in 1..Len(sorted_obs) :
                /\ sorted_obs[k].obs = observations[f[k]]
                /\ sorted_obs[k].distance = DistanceOf(observations[f[k]])
            /\ \A k, l \in 1..Len(sorted_obs) :
                k < l =>
                    /\ sorted_obs[k].distance <= sorted_obs[l].distance
                    /\ sorted_obs[k].distance = sorted_obs[l].distance => f[k] < f[l]

C10_Witness ==
    /\ pc = "done"
    /\ Len(observations) = 3
    /\ Len(sorted_obs) = 3
    /\ sorted_obs[1].obs = observations[2]
    /\ sorted_obs[2].obs = observations[3]
    /\ sorted_obs[3].obs = observations[1]
    /\ sorted_obs[1].distance = sorted_obs[2].distance
    /\ sorted_obs[2].distance < sorted_obs[3].distance
    /\ observations[2] # observations[3]

(***************************************************************************)
(* Claims about empty input                                                *)
(***************************************************************************)
\* C11: empty input never raises and yields an empty output:
\* cluster_observations([]) returns the empty list whatever the grid size,
\* the aggregation over no records at all returns the empty list, and the
\* ranking of no observations leaves an empty result.
C11_EmptyInEmptyOut ==
    pc = "done" =>
        /\ (fn = "cluster_observations" /\ observations = <<>>) =>
                raised = "none" /\ result = <<>>
        /\ (fn = "get_nearby_observations" /\ fetched = <<>>) =>
                raised = "none" /\ summaries = <<>>
        /\ (fn = "nearest" /\ observations = <<>>) =>
                raised = "none" /\ sorted_obs = <<>>

\* cluster_observations([], 0) has returned: no division took place.
C11_Witness ==
    /\ pc = "done" /\ fn = "cluster_observations"
    /\ observations = <<>> /\ grid_size = 0
    /\ raised = "none" /\ result = <<>>

(***************************************************************************)
(* Claims about the order of the summaries and about their locations       *)
(***************************************************************************)
\* The position in the input stream where a name was first seen.
FirstSeen(name) == Min(Carrying(name))

\* C12: the summaries returned by get_nearby_observations are ordered by
\* non-increasing count, and summaries of equal count keep the order in which
\* their names were first seen in the input stream.
C12_ByCountThenFirstSeen ==
    pc = "done" =>
        \A i, j \in 1..Len(summaries) :
            i < j =>
                /\ summaries[i].count >= summaries[j].count
                /\ summaries[i].count = summaries[j].count =>
                       FirstSeen(summaries[i].scientific_name)
                           < FirstSeen(summaries[j].scientific_name)

\* Two names tie with two records each; the one met first comes first.
C12_Witness ==
    /\ pc = "done" /\ Len(summaries) = 2
    /\ summaries[1].count = 2 /\ summaries[2].count = 2
    /\ summaries[1].scientific_name = NameP
    /\ fetched[1].has_taxon /\ fetched[1].name = NameP

\* A record carries a parseable lat/lng pair: exactly two components, both
\* convertible to numbers.
Parseable(r) == Len(r.location) = 2 /\ \A c \in 1..2 : r.location[c].ok

\* The positions of the records of a name that carry a parseable pair.
Located(name) == {i \in Carrying(name) : Parseable(fetched[i])}

\* The m-th smallest element of a set of numbers.
Nth(S, m) == CHOOSE x \in S : Cardinality({y \in S : y <= x}) = m

\* The location entry of a record that carries a parseable pair.
EntryOf(r) ==
    [lat |-> r.location[1].val, lng |-> r.location[2].val,
     observed_on |-> r.observed_on, place_guess |-> r.place_guess]

\* C14: a summary's locations are the entries of exactly the records of its name
\* that carry a parseable lat/lng pair, in encounter order and with repeats
\* kept, and at no point of the aggregation are there more of them than the
\* entry's count.
C14_LocationsOfParseableInOrder ==
    /\ \A k \in 1..Len(species_counts) :
          Len(species_counts[k].locations) <= species_counts[k].count
    /\ pc = "done" =>
          \A k \in 1..Len(summaries) :
              LET L == Located(summaries[k].scientific_name)
                  locs == summaries[k].locations
              IN  /\ Len(locs) = Cardinality(L)
                  /\ \A m \in 1..Len(locs) : locs[m] = EntryOf(fetched[Nth(L, m)])
                  /\ Len(locs) <= summaries[k].count

\* Four records of one name: one unparseable, and two with the same pair after
\* one with another; three entries in that order under a count of four.
C14_Witness ==
    /\ pc = "done"
    /\ \E k \in 1..Len(summaries) :
          /\ summaries[k].count = 4
          /\ Len(summaries[k].locations) = 3
          /\ summaries[k].locations[1].lat = 35
          /\ summaries[k].locations[2].lat = 34
          /\ summaries[k].locations[3] = summaries[k].locations[2]

(***************************************************************************)
(* Claims about the page loops                                             *)
(***************************************************************************)
Bounded == fn \in {"get_nearby_observations", "get_species_observations_in_ca"}

SpeciesCountAt == [k \in 1..Len(species_counts) |-> species_counts[k].count]

\* Every record fetched so far has been through the loop body of the function.
Processed ==
    /\ Len(fetched) = SumOver(1..Len(returned), returned)
    /\ fn = "get_nearby_observations" =>
          SumOver(1..Len(species_counts), SpeciesCountAt) = Cardinality(Named)
    /\ fn = "get_species_observations_in_ca" =>
          Len(observations)
              = Cardinality({i \in 1..Len(fetched) : Parseable(fetched[i])})
    /\ fn = "get_user_life_list" =>
          species_names = {Lower(fetched[i].name) : i \in Named}

\* C13: in each of the three page loops the pages are requested in the order
\* 1, 2, 3, ... without gaps or repeats; a further page is requested only after
\* a full page; an empty or shorter page ends the loop once its records are
\* processed; the two bounded loops request at most max_pages pages; and
\* get_user_life_list has ended only if its last page was not full.
C13_PagesInOrderUntilShort ==
    LET n == Len(requests)
    IN  /\ Len(returned) = n
        /\ \A i \in 1..n : requests[i] = i
        /\ \A i \in 1..(n - 1) : returned[i] = PerPage
        /\ pc = "paging" => page = n + 1
        /\ (n > 0 /\ returned[n] < PerPage) => pc = "done"
        /\ Processed
        /\ Bounded => n <= max_pages
        /\ (Bounded /\ pc = "done") =>
              n > 0 /\ (returned[n] < PerPage \/ n = max_pages)
        /\ (fn = "get_user_life_list" /\ pc = "done") =>
              n > 0 /\ returned[n] < PerPage

\* get_user_life_list has returned after a full page and a shorter one, whose
\* record is in the set.
C13_Witness ==
    /\ fn = "get_user_life_list" /\ pc = "done"
    /\ requests = <<1, 2>>
    /\ returned = <<PerPage, 1>>
    /\ fetched[Len(fetched)].name # <<>>
    /\ Lower(fetched[Len(fetched)].name) \in species_names

(***************************************************************************)
(* Claims about the targets tables                                         *)
(***************************************************************************)
OneRowPerName(rows) ==
    \A r1, r2 \in rows : r1.scientific_name = r2.scientific_name => r1 = r2

Targeted(rows, name) == \E row \in rows : row.scientific_name = name

\* The rows of target_locations of one target, in insertion order.
LocationsOf(locs, id) == SelectSeq(locs, LAMBDA r : r.target_id = id)

\* A step of db.add_target and db.remove_target as the claim describes them:
\* no second row for a name; add_target either adds one row of a new name and
\* returns True or changes nothing and returns False; remove_target returns True
\* exactly when a row had the id, and that row and its locations are gone.
DbAsClaimed ==
    /\ OneRowPerName(targets')
    /\ fn' = "add_target" =>
          \/ /\ db_result' = "False"
             /\ targets' = targets /\ target_locations' = target_locations
          \/ /\ db_result' = "True"
             /\ \E row \in targets' \ targets :
                   /\ targets' = targets \cup {row}
                   /\ ~Targeted(targets, row.scientific_name)
    /\ fn' = "remove_target" =>
          /\ db_result' = "True" <=> \E row \in targets : row.id = target_id'
          /\ targets' = {row \in targets : row.id # target_id'}
          /\ LocationsOf(target_locations', target_id') = <<>>
          /\ \A row \in targets' :
                LocationsOf(target_locations', row.id)
                    = LocationsOf(target_locations, row.id)

\* A step of the `nearby` command as the claim describes it: one attempt per
\* selected index, each echoing "Added" for a name not targeted until then and
\* "Already targeted" otherwise, and afterwards every selected name has its row,
\* a new one with the locations of its summary.
NearbyAsClaimed ==
    fn' = "nearby" =>
        /\ raised' = "none"
        /\ Len(echoed') = Len(indices')
        /\ \A row \in targets : row \in targets'
        /\ \A k \in 1..Len(indices') :
              LET sp == inat_species'[indices'[k] + 1]
                  was == \/ Targeted(targets, sp.scientific_name)
                         \/ \E j \in 1..(k - 1) : indices'[j] = indices'[k]
              IN  /\ echoed'[k].msg = IF was THEN "Already targeted" ELSE "Added"
                  /\ \E row \in targets' :
                        /\ row.scientific_name = sp.scientific_name
                        /\ ~Targeted(targets, sp.scientific_name) =>
                              Len(LocationsOf(target_locations', row.id))
                                  = Len(sp.locations)

\* C15: after any sequence of additions and removals the targets table holds at
\* most one row per scientific_name; in the `nearby` command every selected
\* index in 1..len(results) leads to one add_target attempt, which inserts the
\* target with its locations and reports "Added" when the name was not yet
\* targeted and changes nothing and reports "Already targeted" when it was;
\* remove_target returns True exactly when a row with the id existed, and the
\* row's locations are removed with it.
C15_TargetsAsClaimed == [][DbAsClaimed /\ NearbyAsClaimed]_vars

====
